---- MODULE Spec2Model ----
(***************************************************************************)
(* CarGo backend: booking, payment verification and car administration.   *)
(* The store (cars, bookings) is the MongoDB database, the provider        *)
(* (orders, payments) is Razorpay, and every handler is cut into one       *)
(* action per database operation it awaits.  Instants are milliseconds     *)
(* since 2024-01-01T00:00Z; a calendar date is its day number (0 is        *)
(* 2024-01-01) and a clock time "HH:MM" is its minute of the day.          *)
(***************************************************************************)
EXTENDS Integers, Sequences, FiniteSets, TLC

VARIABLES tz, now, cars, bookings, orders, payments, req, resp, calc, ops

vars == <<tz, now, cars, bookings, orders, payments, req, resp, calc, ops>>

----------------------------------------------------------------------------
(* Bounds of the model *)

MaxDay == 2
MaxBookings == 2
MaxOrders == 1
MaxRate == 2
MaxClockDay == 1

(* Program constants *)

MsPerDay == 86400000
MsPerHour == 3600000
MinorUnits == 100

Days == 0..MaxDay
Times == {600, 661}
BookingTypes == {"hourly", "daily"}
TimeZones == {-300, 0, 330}
Users == {"u1", "u2"}
Admins == {"admin"}
Customers == {"u1"}
CarIds == {1}
RequestCarIds == {1, 2}
ServerTimeZones == {0}
Statuses == {"pending", "confirmed", "cancelled", "completed"}
ActiveStatuses == {"confirmed", "pending"}
Slots == {1, 2}
KeySecret == "RAZORPAY_KEY_SECRET"
ForgedKey == "guessed"
Suffixes == {"A7K2Q", "M3X9B", "T5R1W"}

----------------------------------------------------------------------------
(* Date arithmetic of the JavaScript runtime *)

MinutesToMs(m) == m * 60000

\* new Date("YYYY-MM-DD"): a date-only string is midnight UTC
ParseDate(d) == d * MsPerDay

\* new Date(`${date}T${time}`): a date-time string without offset is local time
ParseLocalDateTime(d, t) == d * MsPerDay + MinutesToMs(t) - MinutesToMs(tz)

\* Date.prototype.setHours(0, 0, 0, 0): midnight of the local calendar day
SetHoursStartOfDay(ms) ==
    ((ms + MinutesToMs(tz)) \div MsPerDay) * MsPerDay - MinutesToMs(tz)

\* Variant: the end date is normalised to local midnight as well
SetHoursMidnight(ms) == SetHoursStartOfDay(ms)

\* Date.prototype.setHours(23, 59, 59, 999): last millisecond of the local day
SetHoursEndOfDay(ms) == SetHoursStartOfDay(ms) + MsPerDay - 1

\* Variant: Math.floor(x / y) for y > 0
Floor(x, y) == x \div y

\* Math.ceil(x / y) for y > 0
Ceil(x, y) == -((-x) \div y)

calculateBookingDetails(car, startDate, endDate, startTime, endTime, bookingType) ==
    IF bookingType = "daily"
    THEN LET start == SetHoursStartOfDay(ParseDate(startDate))
             end == SetHoursEndOfDay(ParseDate(endDate))
             duration == Ceil(end - start, MsPerDay)
         IN  [duration |-> duration, totalAmount |-> duration * car.pricePerDay]
    ELSE LET startDateTime == ParseLocalDateTime(startDate, startTime)
             endDateTime == ParseLocalDateTime(endDate, endTime)
             duration == Ceil(endDateTime - startDateTime, MsPerHour)
         IN  [duration |-> duration, totalAmount |-> duration * car.pricePerHour]

----------------------------------------------------------------------------
(* The payment provider *)

\* crypto.createHmac('sha256', key).update(orderId + "|" + paymentId).digest('hex'):
\* a digest is determined by, and determines, the key and the message
Hmac(key, orderId, paymentId) == <<"hmac-sha256", key, orderId, "|", paymentId>>

\* razorpay.orders.create(options): the provider stores the order and names it
OrdersCreate(amount) ==
    orders' = Append(orders, [amount |-> amount, currency |-> "INR"])

\* The customer pays an issued order at the provider's checkout; the provider
\* answers with the payment id and its signature under the shared secret.
ProviderCapture(o) ==
    /\ o \in 1..Len(orders)
    /\ \A s \in payments : s.razorpay_order_id # o
    /\ payments' = payments \cup
           {[razorpay_order_id |-> o,
             razorpay_payment_id |-> Cardinality(payments) + 1,
             razorpay_signature |-> Hmac(KeySecret, o, Cardinality(payments) + 1)]}
    /\ UNCHANGED <<tz, now, cars, bookings, orders, req, resp, calc, ops>>

\* The signatures a client can put in a request: those the provider has issued
\* and those it computes itself, without the secret.
KnownSignatures(o, p) ==
    {s.razorpay_signature : s \in payments} \cup {Hmac(ForgedKey, o, p)}

----------------------------------------------------------------------------
(* Responses *)

NoCalc == [called |-> FALSE]

NoData == [none |-> TRUE]

\* res.status(status).json({message: why, ...data})
Response(op, status, why, data) ==
    [op |-> op, status |-> status, why |-> why, data |-> data]

\* A verify-payment response, with the order and payment it answers for
VerifyResponse(status, why, orderId, paymentId) ==
    Response("verify-payment", status, why,
             [razorpay_order_id |-> orderId, razorpay_payment_id |-> paymentId])

----------------------------------------------------------------------------
(* POST /create-razorpay-order *)

\* Variant: the order also places a pending hold on the car
CreateRazorpayOrderWithHold(carId, startDate, endDate, startTime, endTime, bookingType) ==
    /\ carId \in DOMAIN cars
    /\ Len(orders) < MaxOrders
    /\ Len(bookings) < MaxBookings
    /\ LET details == calculateBookingDetails(cars[carId], startDate, endDate,
                                              startTime, endTime, bookingType)
       IN  /\ details.totalAmount > 0
           /\ OrdersCreate(details.totalAmount * MinorUnits)
           /\ bookings' = Append(bookings,
                  [user |-> "u1", car |-> carId,
                   startDate |-> ParseDate(startDate), endDate |-> ParseDate(endDate),
                   startTime |-> startTime, endTime |-> endTime,
                   totalAmount |-> details.totalAmount, bookingType |-> bookingType,
                   duration |-> details.duration,
                   status |-> "pending", paymentStatus |-> "pending",
                   razorpayPaymentId |-> 0, razorpayOrderId |-> Len(orders) + 1,
                   bookingId |-> <<"CG", now, "HOLD">>])
           /\ resp' = Response("create-razorpay-order", 200, "",
                               [orderId |-> Len(orders) + 1,
                                amount |-> details.totalAmount * MinorUnits,
                                currency |-> "INR"])
    /\ UNCHANGED <<tz, now, cars, payments, req, calc, ops>>

CreateRazorpayOrder(carId, startDate, endDate, startTime, endTime, bookingType) ==
    /\ UNCHANGED <<tz, now, cars, bookings, payments, req, calc, ops>>
    /\ IF carId \notin DOMAIN cars
       THEN /\ resp' = Response("create-razorpay-order", 404, "Car not found", NoData)
            /\ UNCHANGED orders
       ELSE LET details == calculateBookingDetails(cars[carId], startDate, endDate,
                                                   startTime, endTime, bookingType)
            IN  IF details.totalAmount <= 0
                THEN /\ resp' = Response("create-razorpay-order", 400,
                                         "Calculated total amount is zero or negative.",
                                         NoData)
                     /\ UNCHANGED orders
                ELSE \/ /\ Len(orders) < MaxOrders
                        /\ OrdersCreate(details.totalAmount * MinorUnits)
                        /\ resp' = Response("create-razorpay-order", 200, "",
                                            [orderId |-> Len(orders) + 1,
                                             amount |-> details.totalAmount * MinorUnits,
                                             currency |-> "INR"])
                     \/ /\ resp' = Response("create-razorpay-order", 500,
                                            "Server error while creating payment order",
                                            NoData)
                        /\ UNCHANGED orders

----------------------------------------------------------------------------
(* Booking model: the pre('save') hooks and the schema validators *)

\* Variant: an interval of a single instant is accepted
ValidDateRangeOrEqual(doc) == doc.startDate <= doc.endDate

\* pre('save') date range validation: the save is refused if start >= end
ValidDateRange(doc) == doc.startDate < doc.endDate

\* schema validators: totalAmount min 0, bookingType enum, status enum
SchemaValid(doc) ==
    /\ doc.totalAmount >= 0
    /\ doc.bookingType \in BookingTypes
    /\ doc.status \in Statuses

SaveAccepts(doc) == ValidDateRange(doc) /\ SchemaValid(doc)

\* A document that has not been given a bookingId yet
NoBookingId == <<>>

\* 'CG' + Date.now() + Math.random().toString(36).substr(2, 5).toUpperCase()
GenerateBookingId(ms, suffix) == <<"CG", ms, suffix>>

\* Variant: the hook generates a new bookingId on every save
RegenerateBookingId(doc, suffix) ==
    [doc EXCEPT !.bookingId = GenerateBookingId(now, suffix)]

\* pre('save') id generation: only a document without a bookingId gets one
PreSaveBookingId(doc, suffix) ==
    IF doc.bookingId = NoBookingId
    THEN [doc EXCEPT !.bookingId = GenerateBookingId(now, suffix)]
    ELSE doc

\* The random suffixes that matter to a save: suffixes are only compared for
\* equality, so one unused suffix stands for every unused one.
SuffixChoices ==
    LET used == {bookings[i].bookingId[3] : i \in DOMAIN bookings}
        unused == Suffixes \ used
    IN  used \cup (IF unused = {} THEN {} ELSE {CHOOSE r \in unused : TRUE})

\* bookingId: {unique: true}: the index refuses a second document with the id
UniqueIndexAccepts(doc) ==
    \A i \in DOMAIN bookings : bookings[i].bookingId # doc.bookingId

----------------------------------------------------------------------------
(* POST /verify-payment *)

IdleSlot == [pc |-> "idle"]

\* Variant: only the signed message is compared, whatever key signed it
SignatureMessageMatches(orderId, paymentId, signature) ==
    signature[3] = orderId /\ signature[5] = paymentId

SignatureMatches(orderId, paymentId, signature) ==
    signature = Hmac(KeySecret, orderId, paymentId)

\* Variant: the query matches confirmed bookings only
OverlappingConfirmedBookings(carId, from, to) ==
    {i \in DOMAIN bookings :
        /\ bookings[i].car = carId
        /\ bookings[i].status = "confirmed"
        /\ bookings[i].startDate <= to
        /\ bookings[i].endDate >= from}

\* Variant: the query matches bookings of every status
OverlappingBookingsOfAnyStatus(carId, from, to) ==
    {i \in DOMAIN bookings :
        /\ bookings[i].car = carId
        /\ bookings[i].startDate <= to
        /\ bookings[i].endDate >= from}

\* Booking.findOne({car, status: {$in: [confirmed, pending]},
\*                  startDate: {$lte: to}, endDate: {$gte: from}})
OverlappingBookings(carId, from, to) ==
    {i \in DOMAIN bookings :
        /\ bookings[i].car = carId
        /\ bookings[i].status \in ActiveStatuses
        /\ bookings[i].startDate <= to
        /\ bookings[i].endDate >= from}

\* new Booking({...}): the document built from the request and the recomputation
NewBooking(r, details) ==
    [user |-> r.user, car |-> r.carId,
     startDate |-> ParseDate(r.startDate), endDate |-> ParseDate(r.endDate),
     startTime |-> r.startTime, endTime |-> r.endTime,
     totalAmount |-> details.totalAmount, bookingType |-> r.bookingType,
     duration |-> details.duration,
     status |-> "confirmed", paymentStatus |-> "paid",
     razorpayPaymentId |-> r.paymentId, razorpayOrderId |-> r.orderId,
     bookingId |-> NoBookingId]

\* Lines 104-141: the signature check, then Car.findById and the flag check
VerifyPayment(slot, user, orderId, paymentId, signature, carId, startDate, endDate, startTime, endTime, bookingType) ==
    /\ req[slot].pc = "idle"
    /\ \A other \in Slots : other < slot => req[other].pc # "idle"
    /\ UNCHANGED <<tz, now, cars, bookings, orders, payments, calc, ops>>
    /\ IF ~SignatureMatches(orderId, paymentId, signature)
       THEN /\ resp' = VerifyResponse(400, "Invalid signature", orderId, paymentId)
            /\ UNCHANGED req
       ELSE IF carId \notin DOMAIN cars
       THEN /\ resp' = VerifyResponse(404, "Car not found", orderId, paymentId)
            /\ UNCHANGED req
       ELSE IF ~cars[carId].isAvailable
       THEN /\ resp' = VerifyResponse(400, "Car is not available", orderId, paymentId)
            /\ UNCHANGED req
       ELSE /\ req' = [req EXCEPT ![slot] =
                         [pc |-> "findOverlap", user |-> user,
                          orderId |-> orderId, paymentId |-> paymentId,
                          carId |-> carId, car |-> cars[carId],
                          startDate |-> startDate, endDate |-> endDate,
                          startTime |-> startTime, endTime |-> endTime,
                          bookingType |-> bookingType]]
            /\ UNCHANGED resp

\* Lines 143-183: the overlap re-check, the recomputation and the new document
VerifyFindOverlap(slot) ==
    LET r == req[slot] IN
    /\ r.pc = "findOverlap"
    /\ UNCHANGED <<tz, now, cars, bookings, orders, payments, calc, ops>>
    /\ LET startDateTimeForCheck == ParseLocalDateTime(r.startDate, r.startTime)
           endDateTimeForCheck == ParseLocalDateTime(r.endDate, r.endTime)
       IN  IF OverlappingBookings(r.carId, startDateTimeForCheck,
                                  endDateTimeForCheck) # {}
           THEN /\ resp' = VerifyResponse(400, "Car is no longer available",
                                          r.orderId, r.paymentId)
                /\ req' = [req EXCEPT ![slot] = IdleSlot]
           ELSE LET details == calculateBookingDetails(r.car, r.startDate, r.endDate,
                                   r.startTime, r.endTime, r.bookingType)
                IN  /\ req' = [req EXCEPT ![slot] =
                                 [pc |-> "save", carId |-> r.carId,
                                  orderId |-> r.orderId, paymentId |-> r.paymentId,
                                  booking |-> NewBooking(r, details)]]
                    /\ UNCHANGED resp

\* Line 185: booking.save()
VerifySave(slot) ==
    LET r == req[slot] IN
    /\ r.pc = "save"
    /\ UNCHANGED <<tz, now, cars, orders, payments, calc, ops>>
    /\ Len(bookings) < MaxBookings
    /\ \E suffix \in SuffixChoices :
         LET doc == PreSaveBookingId(r.booking, suffix) IN
         IF SaveAccepts(doc) /\ UniqueIndexAccepts(doc)
         THEN /\ bookings' = Append(bookings, doc)
              /\ req' = [req EXCEPT ![slot] =
                           [pc |-> "inc", carId |-> r.carId,
                            orderId |-> r.orderId, paymentId |-> r.paymentId,
                            id |-> Len(bookings) + 1]]
              /\ UNCHANGED resp
         ELSE /\ resp' = VerifyResponse(500, "Server error", r.orderId, r.paymentId)
              /\ req' = [req EXCEPT ![slot] = IdleSlot]
              /\ UNCHANGED bookings

\* Variant: the counter is set to the number of the car's confirmed and
\* pending bookings
CountActiveBookings(carId) ==
    IF carId \in DOMAIN cars
    THEN [cars EXCEPT ![carId].totalBookings =
            Cardinality({i \in DOMAIN bookings :
                            /\ bookings[i].car = carId
                            /\ bookings[i].status \in ActiveStatuses})]
    ELSE cars

\* Car.findByIdAndUpdate(carId, {$inc: {totalBookings: 1}})
IncTotalBookings(carId) ==
    IF carId \in DOMAIN cars
    THEN [cars EXCEPT ![carId].totalBookings = @ + 1]
    ELSE cars

\* Lines 188-196: the counter increment, populate and the 201 response
VerifyIncrement(slot) ==
    LET r == req[slot] IN
    /\ r.pc = "inc"
    /\ cars' = IncTotalBookings(r.carId)
    /\ resp' = VerifyResponse(201, "Booking created", r.orderId, r.paymentId)
    /\ req' = [req EXCEPT ![slot] = IdleSlot]
    /\ UNCHANGED <<tz, now, bookings, orders, payments, calc, ops>>

\* Lines 198-201: an awaited store operation rejects and the catch block answers
VerifyStoreError(slot) ==
    /\ req[slot].pc \in {"findOverlap", "save", "inc"}
    /\ resp' = VerifyResponse(500, "Server error", req[slot].orderId,
                              req[slot].paymentId)
    /\ req' = [req EXCEPT ![slot] = IdleSlot]
    /\ UNCHANGED <<tz, now, cars, bookings, orders, payments, calc, ops>>

----------------------------------------------------------------------------
(* PATCH /:id/cancel *)

\* Variant: a booking that is already cancelled is cancelled again
CancelFindAgain(user, id) ==
    /\ ops.cancel.pc = "idle"
    /\ UNCHANGED <<tz, now, cars, bookings, orders, payments, req, calc>>
    /\ IF id \notin DOMAIN bookings
       THEN /\ resp' = Response("cancel", 404, "Booking not found", NoData)
            /\ UNCHANGED ops
       ELSE IF bookings[id].user # user
       THEN /\ resp' = Response("cancel", 403, "Access denied", NoData)
            /\ UNCHANGED ops
       ELSE IF bookings[id].startDate <= now
       THEN /\ resp' = Response("cancel", 400, "Booking has already started", NoData)
            /\ UNCHANGED ops
       ELSE /\ ops' = [ops EXCEPT !.cancel =
                         [pc |-> "save", id |-> id,
                          booking |-> [bookings[id] EXCEPT !.status = "cancelled"]]]
            /\ UNCHANGED resp

\* Lines 269-292: Booking.findById, the owner, start and status checks, and
\* the assignment of the new status to the loaded document
CancelFind(user, id) ==
    /\ ops.cancel.pc = "idle"
    /\ UNCHANGED <<tz, now, cars, bookings, orders, payments, req, calc>>
    /\ IF id \notin DOMAIN bookings
       THEN /\ resp' = Response("cancel", 404, "Booking not found", NoData)
            /\ UNCHANGED ops
       ELSE IF bookings[id].user # user
       THEN /\ resp' = Response("cancel", 403, "Access denied", NoData)
            /\ UNCHANGED ops
       ELSE IF bookings[id].startDate <= now
       THEN /\ resp' = Response("cancel", 400, "Booking has already started", NoData)
            /\ UNCHANGED ops
       ELSE IF bookings[id].status = "cancelled"
       THEN /\ resp' = Response("cancel", 400, "Booking is already cancelled", NoData)
            /\ UNCHANGED ops
       ELSE /\ ops' = [ops EXCEPT !.cancel =
                         [pc |-> "save", id |-> id,
                          booking |-> [bookings[id] EXCEPT !.status = "cancelled"]]]
            /\ UNCHANGED resp

\* Variant: the cancellation also marks the payment refunded
CancelSaveWithRefund ==
    LET r == ops.cancel IN
    /\ r.pc = "save"
    /\ UNCHANGED <<tz, now, cars, orders, payments, req, calc>>
    /\ ops' = [ops EXCEPT !.cancel = IdleSlot]
    /\ bookings' = [bookings EXCEPT ![r.id].status = "cancelled",
                                     ![r.id].paymentStatus = "refunded"]
    /\ resp' = Response("cancel", 200, "Booking cancelled", [id |-> r.id])

\* Lines 293-298: booking.save() runs the hooks on the loaded document and
\* writes its modified path, status; then the 200 response
CancelSave ==
    LET r == ops.cancel IN
    /\ r.pc = "save"
    /\ UNCHANGED <<tz, now, cars, orders, payments, req, calc>>
    /\ ops' = [ops EXCEPT !.cancel = IdleSlot]
    /\ \E suffix \in SuffixChoices :
         LET doc == PreSaveBookingId(r.booking, suffix) IN
         IF SaveAccepts(doc)
         THEN /\ bookings' = [bookings EXCEPT ![r.id].status = doc.status,
                                              ![r.id].bookingId = doc.bookingId]
              /\ resp' = Response("cancel", 200, "Booking cancelled", [id |-> r.id])
         ELSE /\ resp' = Response("cancel", 500, "Server error", NoData)
              /\ UNCHANGED bookings

----------------------------------------------------------------------------
(* Admin: PATCH /bookings/:id/status and PUT /cars/:id *)

\* Variant: the status is only changed by the transitions of the lifecycle
UpdateBookingStatusGuarded(id, status) ==
    /\ UNCHANGED <<tz, now, cars, orders, payments, req, calc, ops>>
    /\ IF status \notin Statuses
       THEN /\ resp' = Response("status", 400, "Invalid status", NoData)
            /\ UNCHANGED bookings
       ELSE IF id \notin DOMAIN bookings
       THEN /\ resp' = Response("status", 404, "Booking not found", NoData)
            /\ UNCHANGED bookings
       ELSE IF bookings[id].status \in {"cancelled", "completed"}
       THEN /\ resp' = Response("status", 400, "Invalid transition", NoData)
            /\ UNCHANGED bookings
       ELSE /\ bookings' = [bookings EXCEPT ![id].status = status]
            /\ resp' = Response("status", 200, "Booking status updated",
                                [id |-> id, status |-> status])

UpdateBookingStatus(id, status) ==
    /\ UNCHANGED <<tz, now, cars, orders, payments, req, calc, ops>>
    /\ IF status \notin Statuses
       THEN /\ resp' = Response("status", 400, "Invalid status", NoData)
            /\ UNCHANGED bookings
       ELSE IF id \notin DOMAIN bookings
       THEN /\ resp' = Response("status", 404, "Booking not found", NoData)
            /\ UNCHANGED bookings
       ELSE /\ bookings' = [bookings EXCEPT ![id].status = status]
            /\ resp' = Response("status", 200, "Booking status updated",
                                [id |-> id, status |-> status])

UpdateCar(carId, isAvailable) ==
    /\ UNCHANGED <<tz, now, bookings, orders, payments, req, calc, ops>>
    /\ IF carId \notin DOMAIN cars
       THEN /\ resp' = Response("update-car", 404, "Car not found", NoData)
            /\ UNCHANGED cars
       ELSE /\ cars' = [cars EXCEPT ![carId].isAvailable = isAvailable]
            /\ resp' = Response("update-car", 200, "Car updated", NoData)

\* The same handler with the body {pricePerDay}: line 288 answers 400 to a
\* negative price, then findByIdAndUpdate writes the new rate
UpdateCarPrice(carId, pricePerDay) ==
    /\ UNCHANGED <<tz, now, bookings, orders, payments, req, calc, ops>>
    /\ IF pricePerDay < 0
       THEN /\ resp' = Response("update-car", 400, "Price per day must be non-negative",
                                NoData)
            /\ UNCHANGED cars
       ELSE IF carId \notin DOMAIN cars
       THEN /\ resp' = Response("update-car", 404, "Car not found", NoData)
            /\ UNCHANGED cars
       ELSE /\ cars' = [cars EXCEPT ![carId].pricePerDay = pricePerDay]
            /\ resp' = Response("update-car", 200, "Car updated", NoData)

----------------------------------------------------------------------------
(* Admin: DELETE /cars/:id *)

\* Booking.countDocuments({car, status: {$in: [confirmed, pending]}})
ActiveBookingsOf(carId) ==
    {i \in DOMAIN bookings :
        bookings[i].car = carId /\ bookings[i].status \in ActiveStatuses}

\* Lines 330-339: the count of active bookings and the refusal
DeleteCarCount(carId) ==
    /\ ops.delete.pc = "idle"
    /\ UNCHANGED <<tz, now, cars, bookings, orders, payments, req, calc>>
    /\ IF Cardinality(ActiveBookingsOf(carId)) > 0
       THEN /\ resp' = Response("delete-car", 400,
                                "Cannot delete car with active bookings", NoData)
            /\ UNCHANGED ops
       ELSE /\ ops' = [ops EXCEPT !.delete = [pc |-> "delete", carId |-> carId]]
            /\ UNCHANGED resp

\* Lines 341-347: Car.findByIdAndDelete and the response
DeleteCarDelete ==
    LET carId == ops.delete.carId IN
    /\ ops.delete.pc = "delete"
    /\ UNCHANGED <<tz, now, bookings, orders, payments, req, calc>>
    /\ ops' = [ops EXCEPT !.delete = IdleSlot]
    /\ IF carId \notin DOMAIN cars
       THEN /\ resp' = Response("delete-car", 404, "Car not found", NoData)
            /\ UNCHANGED cars
       ELSE /\ cars' = [c \in DOMAIN cars \ {carId} |-> cars[c]]
            /\ resp' = Response("delete-car", 200, "Car deleted", NoData)

----------------------------------------------------------------------------
(* Cars: POST /:id/check-availability and GET / *)

\* new Date(s) for an ISO 8601 string: date-only is midnight UTC, date and time
\* without offset is local time
NewDate(s) ==
    IF "time" \in DOMAIN s THEN ParseLocalDateTime(s.date, s.time) ELSE ParseDate(s.date)

\* Lines 135-142: Car.findById and the 404
CheckFindCar(carId, startDate, endDate) ==
    /\ ops.check.pc = "idle"
    /\ UNCHANGED <<tz, now, cars, bookings, orders, payments, req, calc>>
    /\ IF carId \notin DOMAIN cars
       THEN /\ resp' = Response("check-availability", 404, "Car not found", NoData)
            /\ UNCHANGED ops
       ELSE /\ ops' = [ops EXCEPT !.check =
                         [pc |-> "findOverlap", carId |-> carId, car |-> cars[carId],
                          from |-> NewDate(startDate), to |-> NewDate(endDate)]]
            /\ UNCHANGED resp

\* Variant: the answer comes from the overlap query alone, whatever the flag
CheckFindOverlapIgnoringFlag ==
    LET r == ops.check
        overlappingBooking == OverlappingBookings(r.carId, r.from, r.to)
        isAvailable == overlappingBooking = {}
    IN  /\ r.pc = "findOverlap"
        /\ UNCHANGED <<tz, now, cars, bookings, orders, payments, req, calc>>
        /\ ops' = [ops EXCEPT !.check = IdleSlot]
        /\ resp' = Response("check-availability", 200,
                            IF isAvailable
                            THEN "Car is available for the selected dates"
                            ELSE "Car is not available for the selected dates",
                            [available |-> isAvailable, carId |-> r.carId,
                             car |-> r.car, from |-> r.from, to |-> r.to])

\* Lines 145-161: Booking.findOne with the overlap filter and the answer
CheckFindOverlap ==
    LET r == ops.check
        overlappingBooking == OverlappingBookings(r.carId, r.from, r.to)
        isAvailable == overlappingBooking = {} /\ r.car.isAvailable
    IN  /\ r.pc = "findOverlap"
        /\ UNCHANGED <<tz, now, cars, bookings, orders, payments, req, calc>>
        /\ ops' = [ops EXCEPT !.check = IdleSlot]
        /\ resp' = Response("check-availability", 200,
                            IF isAvailable
                            THEN "Car is available for the selected dates"
                            ELSE "Car is not available for the selected dates",
                            [available |-> isAvailable, carId |-> r.carId,
                             car |-> r.car, from |-> r.from, to |-> r.to])

\* Booking.distinct('car', {status: {$in: [confirmed, pending]},
\*                          startDate: {$lte: to}, endDate: {$gte: from}})
BookedCarIds(from, to) ==
    {bookings[i].car : i \in {j \in DOMAIN bookings :
                                /\ bookings[j].status \in ActiveStatuses
                                /\ bookings[j].startDate <= to
                                /\ bookings[j].endDate >= from}}

\* Car.find(filter) and Car.countDocuments(filter): isAvailable: true and,
\* with a date range, _id: {$nin: bookedCarIds}
MatchingCars(bookedCarIds) ==
    {c \in DOMAIN cars : cars[c].isAvailable /\ c \notin bookedCarIds}

\* Lines 63-74: a listing with a date range collects the booked cars
ListBookedCars(startDate, endDate) ==
    /\ ops.listing.pc = "idle"
    /\ UNCHANGED <<tz, now, cars, bookings, orders, payments, req, resp, calc>>
    /\ ops' = [ops EXCEPT !.listing =
                 [pc |-> "find", from |-> NewDate(startDate), to |-> NewDate(endDate),
                  bookedCarIds |-> BookedCarIds(NewDate(startDate), NewDate(endDate))]]

\* Lines 82-85: Car.find(filter)
ListFind ==
    LET r == ops.listing IN
    /\ r.pc = "find"
    /\ UNCHANGED <<tz, now, cars, bookings, orders, payments, req, resp, calc>>
    /\ ops' = [ops EXCEPT !.listing =
                 [pc |-> "count", from |-> r.from, to |-> r.to,
                  bookedCarIds |-> r.bookedCarIds,
                  cars |-> [c \in MatchingCars(r.bookedCarIds) |-> cars[c]]]]

\* Lines 87-98: Car.countDocuments(filter) and the response
ListCount ==
    LET r == ops.listing IN
    /\ r.pc = "count"
    /\ UNCHANGED <<tz, now, cars, bookings, orders, payments, req, calc>>
    /\ ops' = [ops EXCEPT !.listing = IdleSlot]
    /\ resp' = Response("listing", 200, "",
                        [cars |-> r.cars, from |-> r.from, to |-> r.to,
                         totalCars |-> Cardinality(MatchingCars(r.bookedCarIds))])

----------------------------------------------------------------------------
(* Admin: GET /dashboard *)

RECURSIVE SumAmounts(_)
\* {$group: {_id: null, totalRevenue: {$sum: '$totalAmount'}}}
SumAmounts(ids) ==
    IF ids = {} THEN 0
    ELSE LET i == CHOOSE k \in ids : TRUE
         IN  bookings[i].totalAmount + SumAmounts(ids \ {i})

\* {$match: {status: 'completed'}}
CompletedBookings == {i \in DOMAIN bookings : bookings[i].status = "completed"}

\* Lines 193-195: Car.countDocuments(), User.countDocuments, Booking.countDocuments()
DashboardTotals ==
    /\ ops.dashboard.pc = "idle"
    /\ UNCHANGED <<tz, now, cars, bookings, orders, payments, req, resp, calc>>
    /\ ops' = [ops EXCEPT !.dashboard =
                 [pc |-> "active", totalCars |-> Cardinality(DOMAIN cars),
                  totalBookings |-> Len(bookings)]]

\* Lines 196-198: Booking.countDocuments({status: {$in: [confirmed, pending]}})
DashboardActive ==
    LET r == ops.dashboard IN
    /\ r.pc = "active"
    /\ UNCHANGED <<tz, now, cars, bookings, orders, payments, req, resp, calc>>
    /\ ops' = [ops EXCEPT !.dashboard =
                 [pc |-> "revenue", totalCars |-> r.totalCars,
                  totalBookings |-> r.totalBookings,
                  activeBookings |-> Cardinality({i \in DOMAIN bookings :
                                         bookings[i].status \in ActiveStatuses})]]

\* Lines 201-241: the revenue aggregate and the response
DashboardRevenue ==
    LET r == ops.dashboard IN
    /\ r.pc = "revenue"
    /\ UNCHANGED <<tz, now, cars, bookings, orders, payments, req, calc>>
    /\ ops' = [ops EXCEPT !.dashboard = IdleSlot]
    /\ resp' = Response("dashboard", 200, "",
                        [totalCars |-> r.totalCars,
                         totalBookings |-> r.totalBookings,
                         activeBookings |-> r.activeBookings,
                         totalRevenue |-> SumAmounts(CompletedBookings)])

----------------------------------------------------------------------------
(* The system *)

NoResponse == Response("none", 0, "", NoData)

\* No cancellation, deletion, availability check, listing or dashboard running
IdleOps ==
    [cancel |-> IdleSlot, delete |-> IdleSlot, check |-> IdleSlot,
     listing |-> IdleSlot, dashboard |-> IdleSlot]

Init ==
    /\ tz \in ServerTimeZones
    /\ now = ParseDate(0) - MsPerHour
    /\ cars = [c \in CarIds |->
                 [pricePerDay |-> 2, pricePerHour |-> 0,
                  isAvailable |-> TRUE, totalBookings |-> 0]]
    /\ bookings = <<>>
    /\ orders = <<>>
    /\ payments = {}
    /\ req = [s \in Slots |-> IdleSlot]
    /\ resp = NoResponse
    /\ calc = NoCalc
    /\ ops = IdleOps

\* The booking forms customers submit: a daily booking of 2024-01-01 to
\* 2024-01-02, an hourly one from 2024-01-02 10:00 to 2024-01-03 10:00, a daily
\* one within 2024-01-01, and a daily one that ends before it starts.
Form(sd, ed, st, et, ty) ==
    [startDate |-> sd, endDate |-> ed, startTime |-> st, endTime |-> et,
     bookingType |-> ty]

BookingForms ==
    {Form(0, 1, 600, 600, "daily"), Form(1, 2, 600, 600, "hourly"),
     Form(0, 0, 600, 600, "daily"), Form(2, 0, 600, 600, "daily")}

\* The target statuses the administrator asks for
AdminTargets == Statuses

\* res.json(...) hands the response to the client before any other handler runs
Deliver ==
    /\ resp # NoResponse
    /\ resp' = NoResponse
    /\ UNCHANGED <<tz, now, cars, bookings, orders, payments, req, calc, ops>>

\* No handler runs between a response and its delivery
Ready == resp = NoResponse

Next ==
    \/ \E c \in RequestCarIds, f \in BookingForms :
          Ready /\ CreateRazorpayOrder(c, f.startDate, f.endDate, f.startTime,
                                       f.endTime, f.bookingType)
    \/ \E o \in 1..MaxOrders : Ready /\ ProviderCapture(o)
    \/ \E slot \in Slots, u \in Customers, o \in 1..MaxOrders, p \in 1..MaxOrders :
          \E sig \in KnownSignatures(o, p) :
          \E c \in RequestCarIds, f \in BookingForms :
             Ready /\ VerifyPayment(slot, u, o, p, sig, c, f.startDate, f.endDate,
                                    f.startTime, f.endTime, f.bookingType)
    \/ \E slot \in Slots : Ready /\ VerifyFindOverlap(slot)
    \/ \E slot \in Slots : Ready /\ VerifySave(slot)
    \/ \E slot \in Slots : Ready /\ VerifyIncrement(slot)
    \/ \E slot \in Slots : Ready /\ VerifyStoreError(slot)
    \/ \E id \in 1..MaxBookings, st \in AdminTargets :
          Ready /\ UpdateBookingStatus(id, st)
    \/ \E c \in CarIds, a \in BOOLEAN : Ready /\ UpdateCar(c, a)
    \/ Deliver

Spec == Init /\ [][Next]_vars

----------------------------------------------------------------------------
(* Claims about the payment flow, checked under Spec *)

Active(i) == bookings[i].status \in ActiveStatuses

\* The inclusive overlap predicate on two stored intervals
StoredOverlap(i, j) ==
    /\ bookings[i].startDate <= bookings[j].endDate
    /\ bookings[j].startDate <= bookings[i].endDate

\* C1: no two distinct persisted bookings on the same car, both confirmed or
\* pending, have stored intervals [startDate, endDate] that overlap inclusively.
C1_NoDoubleBooking ==
    \A i \in DOMAIN bookings : \A j \in DOMAIN bookings :
        (i # j /\ bookings[i].car = bookings[j].car /\ Active(i) /\ Active(j))
            => ~StoredOverlap(i, j)

\* C2: a verify-payment request whose signature is not the HMAC-SHA256 of
\* orderId|paymentId under the provider secret is rejected, and the step
\* changes no booking, no car and starts no commit.
C2_BadSignatureRejected ==
    [][\A slot \in Slots, u \in Customers, o \in 1..MaxOrders, p \in 1..MaxOrders :
         \A sig \in KnownSignatures(o, p) :
         \A c \in RequestCarIds, f \in BookingForms :
            (/\ sig # Hmac(KeySecret, o, p)
             /\ Ready
             /\ VerifyPayment(slot, u, o, p, sig, c, f.startDate, f.endDate,
                              f.startTime, f.endTime, f.bookingType))
            => /\ UNCHANGED <<cars, bookings, req>>
               /\ resp'.status = 400 /\ resp'.why = "Invalid signature"]_vars

C2_Witness ==
    /\ resp.op = "verify-payment" /\ resp.why = "Invalid signature"
    /\ payments # {}
    /\ \A slot \in Slots : req[slot] = IdleSlot

\* The instants a request asks for: its dates combined with its clock times
RequestedFrom(r) == r.startDate * MsPerDay + r.startTime * 60000 - tz * 60000
RequestedTo(r) == r.endDate * MsPerDay + r.endTime * 60000 - tz * 60000

ConflictAtRecheck(r) ==
    \E i \in DOMAIN bookings :
        /\ bookings[i].car = r.carId
        /\ bookings[i].status \in {"confirmed", "pending"}
        /\ bookings[i].startDate <= RequestedTo(r)
        /\ bookings[i].endDate >= RequestedFrom(r)

\* C3: with a valid signature, if at the re-check the car's flag is false or an
\* active booking on the car overlaps the requested interval (the requested
\* dates combined with the requested times), the request ends there with an
\* error: it persists no booking and increments no counter.
C3_RecheckFailsWholeBooking ==
    [][/\ \A slot \in Slots, u \in Customers, o \in 1..MaxOrders, p \in 1..MaxOrders :
          \A c \in CarIds, f \in BookingForms :
            (/\ Ready
             /\ c \in DOMAIN cars /\ ~cars[c].isAvailable
             /\ VerifyPayment(slot, u, o, p, Hmac(KeySecret, o, p), c, f.startDate,
                              f.endDate, f.startTime, f.endTime, f.bookingType))
            => /\ UNCHANGED <<cars, bookings, req>>
               /\ resp'.status = 400
       /\ \A slot \in Slots :
            (/\ req[slot].pc = "findOverlap"
             /\ req'[slot] # req[slot]
             /\ ConflictAtRecheck(req[slot]))
            => /\ UNCHANGED <<cars, bookings>>
               /\ req'[slot] = IdleSlot
               /\ resp'.status \in {400, 500}]_vars

C3_Witness ==
    /\ resp.op = "verify-payment" /\ resp.why = "Car is no longer available"
    /\ Len(bookings) = 1 /\ bookings[1].status = "pending"
    /\ cars[1].totalBookings = 1
    /\ \A slot \in Slots : req[slot] = IdleSlot

BookingsOn(c) == {i \in DOMAIN bookings : bookings[i].car = c}

\* C4: a booking and the increment of its car's totalBookings are one atomic
\* commit: in no reachable state is a booking persisted without the increment.
C4_BookingAndCounterAtomic ==
    \A c \in DOMAIN cars : cars[c].totalBookings = Cardinality(BookingsOn(c))

\* C5: once the signature check has passed, no failure of a later step leaves
\* the charged payment without a stored record carrying its order id and
\* payment id.
C5_FailedCommitLeavesRecord ==
    (/\ resp.op = "verify-payment"
     /\ resp.status # 201
     /\ resp.why # "Invalid signature")
    => \E i \in DOMAIN bookings :
          /\ bookings[i].razorpayOrderId = resp.data.razorpay_order_id
          /\ bookings[i].razorpayPaymentId = resp.data.razorpay_payment_id

\* C6: every persisted booking stores an order id that an earlier successful
\* order creation returned.
C6_BookingOrderWasIssued ==
    \A i \in DOMAIN bookings : bookings[i].razorpayOrderId \in 1..Len(orders)

C6_Witness ==
    /\ Len(bookings) = MaxBookings
    /\ \A i \in DOMAIN bookings : bookings[i].razorpayOrderId = 1
    /\ Len(orders) = 1

\* C7: order creation, whether it succeeds or fails, changes no booking and no
\* car; on success it answers with the new order's id, amount and currency.
C7_OrderCreationFrame ==
    [][(Ready /\ resp'.op = "create-razorpay-order") =>
          /\ UNCHANGED <<cars, bookings, req>>
          /\ resp'.status = 200 =>
                /\ Len(orders') = Len(orders) + 1
                /\ resp'.data = [orderId |-> Len(orders'),
                                 amount |-> orders'[Len(orders')].amount,
                                 currency |-> orders'[Len(orders')].currency]
          /\ resp'.status # 200 => orders' = orders]_vars

C7_Witness ==
    /\ resp.op = "create-razorpay-order" /\ resp.status = 200
    /\ resp.data.amount = 400 /\ Len(orders) = 1
    /\ bookings = <<>> /\ cars[1].totalBookings = 0

\* C10: whenever the computed amount is <= 0 the operation is rejected, so no
\* payment order and no persisted booking has an amount <= 0.
C10_NoNonPositiveAmount ==
    /\ \A o \in DOMAIN orders : orders[o].amount > 0
    /\ \A i \in DOMAIN bookings : bookings[i].totalAmount > 0

----------------------------------------------------------------------------
(* The booking lifecycle: one paid order, bookings made from it, owner       *)
(* cancellation, admin status changes and the passing of time                *)

\* The state after one order was created and paid
InitLife ==
    /\ tz \in ServerTimeZones
    /\ now = ParseDate(0) - MsPerHour
    /\ cars = [c \in CarIds |->
                 [pricePerDay |-> 2, pricePerHour |-> 0,
                  isAvailable |-> TRUE, totalBookings |-> 0]]
    /\ bookings = <<>>
    /\ orders = <<[amount |-> 4 * MinorUnits, currency |-> "INR"]>>
    /\ payments = {[razorpay_order_id |-> 1, razorpay_payment_id |-> 1,
                    razorpay_signature |-> Hmac(KeySecret, 1, 1)]}
    /\ req = [s \in Slots |-> IdleSlot]
    /\ resp = NoResponse
    /\ calc = NoCalc
    /\ ops = IdleOps

\* new Date(): time passes, to the next midnight UTC
Tick ==
    /\ now < ParseDate(MaxClockDay)
    /\ now' = ((now \div MsPerDay) + 1) * MsPerDay
    /\ UNCHANGED <<tz, cars, bookings, orders, payments, req, resp, calc, ops>>

\* The statuses an administrator's request can carry: the four of the enum
\* and one outside it
RequestedStatuses == Statuses \cup {"expired"}

\* The forms of this lifecycle: the daily booking of 2024-01-01 to 2024-01-02
\* and the daily one within 2024-01-01
LifeForms == {Form(0, 1, 600, 600, "daily"), Form(0, 0, 600, 600, "daily")}

NextLife ==
    \/ \E f \in LifeForms :
          Ready /\ VerifyPayment(1, "u1", 1, 1, Hmac(KeySecret, 1, 1), 1, f.startDate,
                                 f.endDate, f.startTime, f.endTime, f.bookingType)
    \/ Ready /\ VerifyFindOverlap(1)
    \/ Ready /\ VerifySave(1)
    \/ Ready /\ VerifyIncrement(1)
    \/ \E u \in Users \cup Admins, id \in 1..MaxBookings : Ready /\ CancelFind(u, id)
    \/ Ready /\ CancelSave
    \/ \E id \in 1..MaxBookings, st \in RequestedStatuses :
          Ready /\ UpdateBookingStatus(id, st)
    \/ Ready /\ Tick
    \/ Deliver

SpecLife == InitLife /\ [][NextLife]_vars

\* The fleet: bookings made from the paid order, admin status changes and
\* admin deletion of cars
NextFleet ==
    \/ \E f \in BookingForms :
          Ready /\ VerifyPayment(1, "u1", 1, 1, Hmac(KeySecret, 1, 1), 1, f.startDate,
                                 f.endDate, f.startTime, f.endTime, f.bookingType)
    \/ Ready /\ VerifyFindOverlap(1)
    \/ Ready /\ VerifySave(1)
    \/ Ready /\ VerifyIncrement(1)
    \/ \E id \in 1..MaxBookings, st \in AdminTargets :
          Ready /\ UpdateBookingStatus(id, st)
    \/ \E c \in CarIds : Ready /\ DeleteCarCount(c)
    \/ Ready /\ DeleteCarDelete
    \/ Deliver

SpecFleet == InitLife /\ [][NextFleet]_vars

----------------------------------------------------------------------------
(* Claims about the booking lifecycle, checked under SpecLife *)

CancelAllowed(u, id) ==
    /\ id \in DOMAIN bookings
    /\ bookings[id].user = u
    /\ now < bookings[id].startDate
    /\ bookings[id].status # "cancelled"

\* C11: when the owner of a booking asks for cancellation while the current
\* time is before its startDate and its status is not cancelled, the request
\* goes through, and its save sets the status to cancelled and changes nothing
\* else: every other field of the booking, every other booking and every car
\* (its totalBookings included) stay as they are.
C11_CancelChangesOnlyStatus ==
    [][/\ \A u \in Users \cup Admins, id \in 1..MaxBookings :
            (Ready /\ CancelAllowed(u, id) /\ CancelFind(u, id))
            => /\ ops'.cancel.pc = "save" /\ ops'.cancel.id = id
               /\ UNCHANGED <<cars, bookings>>
       /\ (Ready /\ ops.cancel.pc = "save" /\ ops'.cancel.pc = "idle")
            => /\ bookings' = [bookings EXCEPT ![ops.cancel.id].status = "cancelled"]
               /\ resp'.op = "cancel" /\ resp'.status = 200
               /\ UNCHANGED cars]_vars

C11_Witness ==
    /\ resp.op = "cancel" /\ resp.status = 200
    /\ bookings[resp.data.id].status = "cancelled"
    /\ bookings[resp.data.id].paymentStatus = "paid"
    /\ bookings[resp.data.id].bookingId # NoBookingId
    /\ cars[bookings[resp.data.id].car].totalBookings = 1

\* C12: a cancellation request by someone who is not the booking's owner (an
\* administrator included), or made at or after the booking's startDate, or for
\* a booking that is already cancelled, is answered with an error and changes
\* no booking and starts no save; so a second cancellation fails.
C12_CancelPreconditions ==
    [][\A u \in Users \cup Admins, id \in 1..MaxBookings :
         (/\ Ready
          /\ id \in DOMAIN bookings
          /\ ~CancelAllowed(u, id)
          /\ CancelFind(u, id))
         => /\ UNCHANGED <<cars, bookings, ops>>
            /\ resp'.op = "cancel"
            /\ resp'.status = IF bookings[id].user # u THEN 403 ELSE 400]_vars

C12_Witness ==
    /\ resp.op = "cancel" /\ resp.why = "Booking is already cancelled"
    /\ \E i \in DOMAIN bookings : bookings[i].status = "cancelled"
    /\ ops.cancel.pc = "idle"

\* C13: cancelled and completed are terminal: no step changes the status of
\* a booking that is cancelled or completed.
C13_TerminalStatuses ==
    [][\A i \in DOMAIN bookings :
         bookings[i].status \in {"cancelled", "completed"}
            => bookings'[i].status = bookings[i].status]_vars

\* C14: an administrator's status change on an existing booking succeeds for
\* each of the four statuses whatever the booking's status, owner and start
\* time are, and changes only its status; a status outside the four, or an
\* unknown booking, is rejected and no booking changes.
C14_AdminStatusChange ==
    [][\A id \in 1..MaxBookings, st \in RequestedStatuses :
         (Ready /\ UpdateBookingStatus(id, st))
         => /\ UNCHANGED cars
            /\ IF st \in {"pending", "confirmed", "cancelled", "completed"}
                  /\ id \in DOMAIN bookings
               THEN /\ bookings' = [bookings EXCEPT ![id].status = st]
                    /\ resp'.status = 200
               ELSE /\ UNCHANGED bookings
                    /\ resp'.status \in {400, 404}]_vars

C14_Witness ==
    /\ resp.op = "status" /\ resp.status = 200 /\ resp.data.status = "pending"
    /\ bookings[resp.data.id].status = "pending"
    /\ bookings[resp.data.id].startDate <= now
    /\ bookings[resp.data.id].paymentStatus = "paid"

\* C15: every booking that is confirmed or pending references a car that
\* still exists.
C15_ActiveBookingHasCar ==
    \A i \in DOMAIN bookings :
        bookings[i].status \in ActiveStatuses => bookings[i].car \in DOMAIN cars

\* C16: every persisted booking has a non-empty bookingId, no two persisted
\* bookings share one, a booking's bookingId never changes, and every creation
\* whose document passes the date check persists its booking, so that N
\* creations yield N bookings with N distinct ids.
C16_BookingIds ==
    [][/\ \A i \in DOMAIN bookings' : bookings'[i].bookingId # NoBookingId
       /\ \A i \in DOMAIN bookings' : \A j \in DOMAIN bookings' :
             i # j => bookings'[i].bookingId # bookings'[j].bookingId
       /\ \A i \in DOMAIN bookings : bookings'[i].bookingId = bookings[i].bookingId
       /\ \A slot \in Slots :
             (/\ Ready
              /\ req[slot].pc = "save" /\ req'[slot].pc # "save"
              /\ req[slot].booking.startDate < req[slot].booking.endDate)
             => Len(bookings') = Len(bookings) + 1]_vars

\* C17: a write of a booking with startDate >= endDate is rejected, so every
\* booking in the store has startDate < endDate.
C17_StoredIntervalsOrdered ==
    \A i \in DOMAIN bookings : bookings[i].startDate < bookings[i].endDate

C17_Witness ==
    /\ resp.op = "verify-payment" /\ resp.status = 500
    /\ bookings = <<>>
    /\ \A slot \in Slots : req[slot] = IdleSlot

----------------------------------------------------------------------------
(* Reads of the catalogue and the dashboard, each running next to the       *)
(* writers of the store: bookings made from one paid order, admin status     *)
(* changes and admin changes of a car's availability flag                    *)

IsoDate(d) == [date |-> d]
IsoDateTime(d, t) == [date |-> d, time |-> t]

\* The ranges clients ask about: 2024-01-02 to 2024-01-03, the single days
\* 2024-01-01 and 2024-01-03, and 2024-01-02T10:00 to 2024-01-02T11:01
Range(sd, ed) == [startDate |-> sd, endDate |-> ed]

QueryRanges ==
    {Range(IsoDate(1), IsoDate(2)), Range(IsoDate(0), IsoDate(0)),
     Range(IsoDate(2), IsoDate(2)),
     Range(IsoDateTime(1, 600), IsoDateTime(1, 661))}

NextCheck ==
    \/ \E f \in BookingForms :
          Ready /\ VerifyPayment(1, "u1", 1, 1, Hmac(KeySecret, 1, 1), 1, f.startDate,
                                 f.endDate, f.startTime, f.endTime, f.bookingType)
    \/ Ready /\ VerifyFindOverlap(1)
    \/ Ready /\ VerifySave(1)
    \/ Ready /\ VerifyIncrement(1)
    \/ \E id \in 1..MaxBookings, st \in AdminTargets :
          Ready /\ UpdateBookingStatus(id, st)
    \/ \E c \in CarIds, a \in BOOLEAN : Ready /\ UpdateCar(c, a)
    \/ \E c \in RequestCarIds, q \in QueryRanges :
          Ready /\ CheckFindCar(c, q.startDate, q.endDate)
    \/ Ready /\ CheckFindOverlap
    \/ Deliver

SpecCheck == InitLife /\ [][NextCheck]_vars

NextList ==
    \/ \E f \in BookingForms :
          Ready /\ VerifyPayment(1, "u1", 1, 1, Hmac(KeySecret, 1, 1), 1, f.startDate,
                                 f.endDate, f.startTime, f.endTime, f.bookingType)
    \/ Ready /\ VerifyFindOverlap(1)
    \/ Ready /\ VerifySave(1)
    \/ Ready /\ VerifyIncrement(1)
    \/ \E id \in 1..MaxBookings, st \in AdminTargets :
          Ready /\ UpdateBookingStatus(id, st)
    \/ \E c \in CarIds, a \in BOOLEAN : Ready /\ UpdateCar(c, a)
    \/ \E q \in QueryRanges : Ready /\ ListBookedCars(q.startDate, q.endDate)
    \/ Ready /\ ListFind
    \/ Ready /\ ListCount
    \/ Deliver

SpecList == InitLife /\ [][NextList]_vars

NextDash ==
    \/ \E f \in BookingForms :
          Ready /\ VerifyPayment(1, "u1", 1, 1, Hmac(KeySecret, 1, 1), 1, f.startDate,
                                 f.endDate, f.startTime, f.endTime, f.bookingType)
    \/ Ready /\ VerifyFindOverlap(1)
    \/ Ready /\ VerifySave(1)
    \/ Ready /\ VerifyIncrement(1)
    \/ \E id \in 1..MaxBookings, st \in AdminTargets :
          Ready /\ UpdateBookingStatus(id, st)
    \/ Ready /\ DashboardTotals
    \/ Ready /\ DashboardActive
    \/ Ready /\ DashboardRevenue
    \/ Deliver

SpecDash == InitLife /\ [][NextDash]_vars

----------------------------------------------------------------------------
(* Claims about the reads, checked under SpecCheck, SpecList and SpecDash *)

\* An active booking on car c whose stored interval meets [from, to]
BlockedBy(c, from, to) ==
    {i \in DOMAIN bookings :
        /\ bookings[i].car = c
        /\ bookings[i].status = "confirmed" \/ bookings[i].status = "pending"
        /\ bookings[i].startDate <= to
        /\ bookings[i].endDate >= from}

\* C18: check-availability answers available exactly when the car's flag, as
\* read by the request, is true and no confirmed or pending booking on the car
\* has start <= to and end >= from: a booking that only touches the queried
\* interval blocks, a cancelled or completed one does not.
C18_CheckAvailability ==
    [][(Ready /\ ops.check.pc = "findOverlap" /\ ops'.check.pc = "idle")
         => /\ resp'.op = "check-availability" /\ resp'.status = 200
            /\ resp'.data.available =
                  (/\ ops.check.car.isAvailable
                   /\ BlockedBy(ops.check.carId, ops.check.from, ops.check.to) = {})
            /\ UNCHANGED <<cars, bookings>>]_vars

C18_Witness ==
    /\ resp.op = "check-availability" /\ resp.status = 200
    /\ ~resp.data.available
    /\ resp.data.car.isAvailable
    /\ \E i \in DOMAIN bookings :
          /\ bookings[i].status = "pending"
          /\ bookings[i].endDate = resp.data.from
    /\ \A i \in DOMAIN bookings : bookings[i].startDate < resp.data.from

\* C19: a listing filtered by a date range returns no car whose flag is false
\* and no car that, when the response is produced, has a confirmed or pending
\* booking overlapping the range, also when a booking is committed between the
\* listing's queries.
C19_ListingExcludesBookedCars ==
    (resp.op = "listing" /\ resp.status = 200) =>
        \A c \in DOMAIN resp.data.cars :
            /\ resp.data.cars[c].isAvailable
            /\ BlockedBy(c, resp.data.from, resp.data.to) = {}

\* C20: the dashboard changes no stored record and the figures of one
\* response agree with each other and with the store: activeBookings does not
\* exceed totalBookings and totalRevenue is the sum of totalAmount over the
\* completed bookings.
C20_DashboardConsistent ==
    (resp.op = "dashboard" /\ resp.status = 200) =>
        /\ resp.data.activeBookings <= resp.data.totalBookings
        /\ resp.data.totalRevenue = SumAmounts(CompletedBookings)

----------------------------------------------------------------------------
(* One slot of one car: bookings made from the paid order, cancellation by   *)
(* the owner or the administrator, the car's flag, and availability checks   *)
(* asked for the very interval of a booking form                             *)

\* The forms of this flow: the daily bookings of 2024-01-01 to 2024-01-02 and
\* of 2024-01-03 to 2024-01-04
SlotForms == {Form(0, 1, 600, 600, "daily"), Form(2, 3, 600, 600, "daily")}

\* The interval of a form as verify-payment writes it, `${startDate}T${startTime}`
\* to `${endDate}T${endTime}`, sent to check-availability as its two dates
RequestedRange(f) ==
    Range(IsoDateTime(f.startDate, f.startTime), IsoDateTime(f.endDate, f.endTime))

\* The dates of a form alone, as check-availability's startDate and endDate
DateRange(f) == Range(IsoDate(f.startDate), IsoDate(f.endDate))

SlotRanges == {RequestedRange(f) : f \in SlotForms} \cup {DateRange(f) : f \in SlotForms}

NextSlot ==
    \/ \E f \in SlotForms :
          Ready /\ VerifyPayment(1, "u1", 1, 1, Hmac(KeySecret, 1, 1), 1, f.startDate,
                                 f.endDate, f.startTime, f.endTime, f.bookingType)
    \/ Ready /\ VerifyFindOverlap(1)
    \/ Ready /\ VerifySave(1)
    \/ Ready /\ VerifyIncrement(1)
    \/ \E id \in 1..MaxBookings : Ready /\ CancelFind("u1", id)
    \/ Ready /\ CancelSave
    \/ \E id \in 1..MaxBookings : Ready /\ UpdateBookingStatus(id, "cancelled")
    \/ \E c \in CarIds, a \in BOOLEAN : Ready /\ UpdateCar(c, a)
    \/ \E c \in CarIds, q \in SlotRanges :
          Ready /\ CheckFindCar(c, q.startDate, q.endDate)
    \/ Ready /\ CheckFindOverlap
    \/ Deliver

SpecSlot == InitLife /\ [][NextSlot]_vars

\* The check-availability request q in flight asks about car c and the interval
\* of the booking details r
SameCarAndInterval(c, r, q) ==
    /\ q.carId = c
    /\ q.from = NewDate(IsoDateTime(r.startDate, r.startTime))
    /\ q.to = NewDate(IsoDateTime(r.endDate, r.endTime))

\* C21: in one store state, for one car and one requested interval (the
\* instants startDate T startTime and endDate T endTime), the re-check of
\* verify-payment rejects exactly when check-availability answers unavailable:
\* a request refused for the car's flag is answered unavailable, and with both
\* overlap queries about to run on the same car document, one rejects exactly
\* when the other answers unavailable.
C21_RecheckAgreesWithCheckAvailability ==
    LET r == req[1]
        q == ops.check
    IN  /\ (/\ Ready /\ r.pc = "findOverlap" /\ q.pc = "findOverlap"
            /\ q.car = r.car /\ SameCarAndInterval(r.carId, r, q))
           => ((ENABLED (VerifyFindOverlap(1) /\ resp'.status = 400))
                 <=> (ENABLED (CheckFindOverlap /\ ~resp'.data.available)))
        /\ \A f \in SlotForms :
             (/\ Ready /\ r.pc = "idle" /\ q.pc = "findOverlap"
              /\ q.carId \in DOMAIN cars /\ q.car = cars[q.carId]
              /\ SameCarAndInterval(q.carId, f, q))
             => ((ENABLED (/\ VerifyPayment(1, "u1", 1, 1, Hmac(KeySecret, 1, 1),
                                            q.carId, f.startDate, f.endDate,
                                            f.startTime, f.endTime, f.bookingType)
                           /\ resp'.status = 400))
                   => (ENABLED (CheckFindOverlap /\ ~resp'.data.available)))

\* Both handlers are about to query for the interval of a stored confirmed
\* booking, and both refuse
C21_Witness ==
    /\ Ready /\ req[1].pc = "findOverlap" /\ ops.check.pc = "findOverlap"
    /\ ops.check.car = req[1].car
    /\ SameCarAndInterval(req[1].carId, req[1], ops.check)
    /\ \E i \in DOMAIN bookings :
          /\ bookings[i].status = "confirmed"
          /\ bookings[i].startDate = ParseDate(req[1].startDate)
    /\ ENABLED (VerifyFindOverlap(1) /\ resp'.status = 400)

\* C22: each verified payment produces at most one booking: no two persisted
\* bookings carry the same payment id or the same order id, also when the same
\* valid (orderId, paymentId, signature) triple is submitted again.
C22_OneBookingPerPayment ==
    \A i, j \in DOMAIN bookings :
        i # j => /\ bookings[i].razorpayPaymentId # bookings[j].razorpayPaymentId
                 /\ bookings[i].razorpayOrderId # bookings[j].razorpayOrderId

----------------------------------------------------------------------------
(* The slot of a cancelled booking, checked under SpecSlot *)

\* Booking i is cancelled and no confirmed or pending booking on its car
\* overlaps its stored interval
Released(i) ==
    /\ bookings[i].status = "cancelled"
    /\ \A j \in DOMAIN bookings \ {i} :
          ~(/\ Active(j) /\ bookings[j].car = bookings[i].car
            /\ bookings[j].startDate <= bookings[i].endDate
            /\ bookings[j].endDate >= bookings[i].startDate)

\* The availability check q asks about the car and the interval of booking b:
\* its two dates, or its dates with its times
AsksAbout(q, b) ==
    /\ q.carId = b.car
    /\ \/ q.from = b.startDate /\ q.to = b.endDate
       \/ /\ q.from = b.startDate + MinutesToMs(b.startTime) - MinutesToMs(tz)
          /\ q.to = b.endDate + MinutesToMs(b.endTime) - MinutesToMs(tz)

\* The booking details d (dates as calendar days) are those of booking b
DetailsOf(d, b) ==
    /\ ParseDate(d.startDate) = b.startDate /\ ParseDate(d.endDate) = b.endDate
    /\ d.startTime = b.startTime /\ d.endTime = b.endTime
    /\ d.bookingType = b.bookingType

\* The document doc repeats the car and the interval of booking b
Repeats(doc, b) ==
    /\ doc.car = b.car
    /\ doc.startDate = b.startDate /\ doc.endDate = b.endDate
    /\ doc.startTime = b.startTime /\ doc.endTime = b.endTime
    /\ doc.bookingType = b.bookingType

\* The save of verify-payment's document persists it, or refuses a valid
\* document for a bookingId that is already taken
SavePersistsUnlessIdTaken ==
    LET doc == req[1].booking IN
    \/ \E suffix \in SuffixChoices :
          /\ UniqueIndexAccepts(PreSaveBookingId(doc, suffix))
          /\ bookings' = Append(bookings, PreSaveBookingId(doc, suffix))
    \/ /\ resp'.status = 500 /\ bookings' = bookings
       /\ \E suffix \in SuffixChoices :
             /\ SaveAccepts(PreSaveBookingId(doc, suffix))
             /\ ~UniqueIndexAccepts(PreSaveBookingId(doc, suffix))

----------------------------------------------------------------------------
(* From the order to the booking: order creation, the customer's payment,    *)
(* verification with any of the booking forms, and admin changes of the      *)
(* car's daily rate                                                          *)

\* The daily rates an administrator sets
Rates == 1..MaxRate

NextOrder ==
    \/ \E c \in RequestCarIds, f \in BookingForms :
          Ready /\ CreateRazorpayOrder(c, f.startDate, f.endDate, f.startTime,
                                       f.endTime, f.bookingType)
    \/ \E o \in 1..MaxOrders : Ready /\ ProviderCapture(o)
    \/ \E s \in payments, f \in BookingForms :
          Ready /\ VerifyPayment(1, "u1", s.razorpay_order_id, s.razorpay_payment_id,
                                 s.razorpay_signature, 1, f.startDate, f.endDate,
                                 f.startTime, f.endTime, f.bookingType)
    \/ Ready /\ VerifyFindOverlap(1)
    \/ Ready /\ VerifySave(1)
    \/ Ready /\ VerifyIncrement(1)
    \/ \E c \in CarIds, p \in Rates : Ready /\ UpdateCarPrice(c, p)
    \/ Deliver

SpecOrder == Init /\ [][NextOrder]_vars

\* C23: the totalAmount stored on every persisted booking equals the amount
\* for which its payment order was created (order amount / 100), whatever
\* happens between order creation and verification.
C23_BookingAmountIsOrderAmount ==
    \A i \in DOMAIN bookings :
        /\ bookings[i].razorpayOrderId \in DOMAIN orders
        /\ bookings[i].totalAmount * MinorUnits
              = orders[bookings[i].razorpayOrderId].amount

\* The document verify-payment builds from the details of an order request
BookingFor(c, f) ==
    NewBooking([user |-> "u1", carId |-> c, orderId |-> Len(orders) + 1,
                paymentId |-> 0, startDate |-> f.startDate, endDate |-> f.endDate,
                startTime |-> f.startTime, endTime |-> f.endTime,
                bookingType |-> f.bookingType],
               calculateBookingDetails(cars[c], f.startDate, f.endDate, f.startTime,
                                       f.endTime, f.bookingType))

\* C24: order creation succeeds only for requests the commit step can persist:
\* whenever create-razorpay-order returns an order for some booking details,
\* the booking built from those details passes the pre-save rule
\* startDate < endDate and the schema, so its save is accepted.
C24_OrderedBookingIsPersistable ==
    [][\A c \in CarIds, f \in BookingForms :
          (/\ Ready
           /\ CreateRazorpayOrder(c, f.startDate, f.endDate, f.startTime, f.endTime,
                                  f.bookingType)
           /\ resp'.status = 200)
          => /\ ValidDateRange(BookingFor(c, f))
             /\ SaveAccepts(BookingFor(c, f))]_vars

----------------------------------------------------------------------------
(* The booking counter: two verify-payment requests side by side, each step  *)
(* of which the store may refuse, next to owner cancellation and admin       *)
(* status changes                                                            *)

\* The statuses the administrator sets here: a booking is called off or done
ClosingStatuses == {"cancelled", "completed"}

NextCount ==
    \/ \E slot \in Slots, f \in SlotForms :
          Ready /\ VerifyPayment(slot, "u1", 1, 1, Hmac(KeySecret, 1, 1), 1,
                                 f.startDate, f.endDate, f.startTime, f.endTime,
                                 f.bookingType)
    \/ \E slot \in Slots : Ready /\ VerifyFindOverlap(slot)
    \/ \E slot \in Slots : Ready /\ VerifySave(slot)
    \/ \E slot \in Slots : Ready /\ VerifyIncrement(slot)
    \/ \E slot \in Slots : Ready /\ VerifyStoreError(slot)
    \/ \E id \in 1..MaxBookings : Ready /\ CancelFind("u1", id)
    \/ Ready /\ CancelSave
    \/ \E id \in 1..MaxBookings, st \in ClosingStatuses :
          Ready /\ UpdateBookingStatus(id, st)
    \/ Deliver

SpecCount == InitLife /\ [][NextCount]_vars

\* The verify-payment requests that have saved a booking on car c and have
\* their increment still to run
AwaitingIncrement(c) == {s \in Slots : req[s].pc = "inc" /\ req[s].carId = c}

\* The bookings persisted on car c that are neither counted nor about to be
Uncounted(c) ==
    Cardinality(BookingsOn(c)) - cars[c].totalBookings
        - Cardinality(AwaitingIncrement(c))

----------------------------------------------------------------------------
(* Pricing calculator on its own: every call records its arguments and result *)

InitCalc ==
    /\ tz \in TimeZones
    /\ now = 0
    /\ cars = <<>>
    /\ bookings = <<>>
    /\ orders = <<>>
    /\ payments = {}
    /\ req = <<>>
    /\ resp = <<>>
    /\ calc = NoCalc
    /\ ops = <<>>

Calculate(pd, ph, sd, ed, st, et, ty) ==
    LET car == [pricePerDay |-> pd, pricePerHour |-> ph]
        r == calculateBookingDetails(car, sd, ed, st, et, ty)
    IN  /\ ~calc.called
        /\ calc' = [called |-> TRUE, pricePerDay |-> pd, pricePerHour |-> ph,
                    startDate |-> sd, endDate |-> ed, startTime |-> st,
                    endTime |-> et, bookingType |-> ty,
                    duration |-> r.duration, totalAmount |-> r.totalAmount]
        /\ UNCHANGED <<tz, now, cars, bookings, orders, payments, req, resp, ops>>

NextCalc ==
    \E pd \in 0..MaxRate, ph \in 0..MaxRate, sd \in Days, ed \in Days,
       st \in Times, et \in Times, ty \in BookingTypes :
        Calculate(pd, ph, sd, ed, st, et, ty)

SpecCalc == InitCalc /\ [][NextCalc]_vars

----------------------------------------------------------------------------
(* Pricing claims, checked under SpecCalc *)

CalcMinutes == (calc.endDate - calc.startDate) * 1440 + (calc.endTime - calc.startTime)

\* C8 (as stated): a daily booking from date D to date D+n has duration n and
\* totalAmount n x pricePerDay.
C8_DailyDurationIsDayDifference ==
    (calc.called /\ calc.bookingType = "daily" /\ calc.endDate >= calc.startDate) =>
        /\ calc.duration = calc.endDate - calc.startDate
        /\ calc.totalAmount = (calc.endDate - calc.startDate) * calc.pricePerDay

\* C8 (amended): a daily booking from date D to date D+n counts both calendar
\* days, so its duration is n+1 and its totalAmount (n+1) x pricePerDay; from
\* 2024-01-01 to 2024-01-03 the duration is 3.
C8_DailyDurationCountsBothDays ==
    (calc.called /\ calc.bookingType = "daily" /\ calc.endDate >= calc.startDate) =>
        /\ calc.duration = calc.endDate - calc.startDate + 1
        /\ calc.totalAmount = (calc.endDate - calc.startDate + 1) * calc.pricePerDay
        /\ (calc.startDate = 0 /\ calc.endDate = 2) => calc.duration = 3

C8_Witness ==
    /\ calc.called /\ calc.bookingType = "daily"
    /\ calc.startDate = 0 /\ calc.endDate = 2
    /\ calc.pricePerDay = 2 /\ calc.duration = 3 /\ calc.totalAmount = 6

\* C9: in hourly mode the duration is the number of minutes between the two
\* combined instants divided by 60 and rounded up, never down, and totalAmount
\* is duration x pricePerHour; 1 hour 1 minute gives duration 2.
C9_HourlyDurationRoundsUp ==
    (calc.called /\ calc.bookingType = "hourly") =>
        /\ calc.duration * 60 >= CalcMinutes
        /\ (calc.duration - 1) * 60 < CalcMinutes
        /\ calc.totalAmount = calc.duration * calc.pricePerHour
        /\ CalcMinutes = 61 => calc.duration = 2

C9_Witness ==
    /\ calc.called /\ calc.bookingType = "hourly"
    /\ calc.startDate = calc.endDate /\ calc.startTime = 600 /\ calc.endTime = 661
    /\ calc.pricePerHour = 2 /\ calc.duration = 2 /\ calc.totalAmount = 4

====
